---- MODULE Spec2Model ----
(***************************************************************************)
(* A model of the trade journal: the SQLite store of src/database.py (the  *)
(* tables trades_new and scores_new), the submit handlers of src/app.py    *)
(* that write to it, and the pure classification and scoring functions of  *)
(* src/action_detector.py and src/score_calculator.py.                     *)
(*                                                                         *)
(* Encoding of the source's values:                                        *)
(*   trade_type   "buy" = '买入', "sell" = '卖出'                          *)
(*   status       "open" = '进行中', "closed" = '已结束'                   *)
(*   score_type   "subjective" = '主观评分', "objective" = '客观评分'      *)
(*   action_type  "profit-taken" = '涨了舍得卖', "dipped-then-bought" =    *)
(*                '跌了敢买', "rallied-then-bought" = '涨了敢买',          *)
(*                "loss-cut" = '跌了舍得卖'                                *)
(*   prices       integers, in hundredths (the forms read them "%.2f")     *)
(*   dates        day numbers; the source's "%Y-%m-%d" strings compare in  *)
(*                SQL exactly as the days they name                        *)
(*   None / NULL  None for text columns, NoneInt for numeric ones          *)
(* The free-text columns stock_name, notes, answer and reflection and the  *)
(* created_at timestamps take part in no decision and are left out.        *)
(***************************************************************************)
EXTENDS Integers, Sequences, FiniteSets, TLC

VARIABLES
    trades,     \* the rows of table trades_new
    scores,     \* the rows of table scores_new
    tradeSeq,   \* sqlite_sequence of trades_new: the last id AUTOINCREMENT gave
    scoreSeq,   \* sqlite_sequence of scores_new
    locked,     \* a connection that was never closed still holds the write lock
    last,       \* the last operation and how it ended
    call        \* the last call of a pure function: arguments and result

vars == <<trades, scores, tradeSeq, scoreSeq, locked, last, call>>

\* ---------------------------------------------------------------- values

None == "None"
NoneInt == 0 - 1

\* Bounds of the model.
MaxTrades == 3      \* rows ever inserted into trades_new
MaxScores == 4      \* rows ever inserted into scores_new
MaxPrice == 104     \* largest price given to the pure functions
MaxDay == 2         \* days a daily self-check is filed for

\* models.py, ACTION_TYPES
ACTION_TYPES ==
    [a \in {"profit-taken", "dipped-then-bought", "rallied-then-bought", "loss-cut"} |->
        [max_score |-> IF a \in {"profit-taken", "dipped-then-bought"} THEN 30 ELSE 20]]

\* The order of ACTION_TYPES.items(), which the daily card loop follows.
ActionOrder == <<"profit-taken", "dipped-then-bought", "rallied-then-bought", "loss-cut">>

BuyLabels == {"rallied-then-bought", "dipped-then-bought"}
SellLabels == {"profit-taken", "loss-cut"}

\* Inputs the model draws from.
StockCodes == {"600000"}
BuyQuantities == {1000}
SellQuantities == {400, 600}
BuyPrices == {10000}
SellQuotes == {[sell_date |-> 1, sell_price |-> 10500], [sell_date |-> 2, sell_price |-> 9700]}
BuyDates == {1}

\* ----------------------------------------------------------- the store

DB == [trades |-> trades, scores |-> scores, tradeSeq |-> tradeSeq,
       scoreSeq |-> scoreSeq, locked |-> locked]

\* How a method of Database ends: the store it leaves, what it returns, and the
\* exception it raises ("none" when it returns).
Return(db, ret) == [db |-> db, ret |-> ret, exc |-> "none"]
Raise(db, exc) == [db |-> db, ret |-> NoneInt, exc |-> exc]

RECURSIVE SumQuantity(_)
SumQuantity(rows) ==
    IF rows = {} THEN 0
    ELSE LET r == CHOOSE x \in rows : TRUE
         IN r.quantity + SumQuantity(rows \ {r})

Max(S) == CHOOSE x \in S : \A y \in S : y <= x
Min(S) == CHOOSE x \in S : \A y \in S : x <= y

\* The next lot id taken from the number of rows instead of the largest id.
NextTradeGroupIdByCount(db) == Cardinality(db.trades) + 1

\* The next lot id taken to be the id the new row gets.
NextTradeGroupIdOfRowId(db) == db.tradeSeq + 1

\* The next lot id taken from the buy rows still open.
NextTradeGroupIdOfOpen(db) ==
    LET groups == {r.trade_group_id :
                        r \in {x \in db.trades : x.trade_type = "buy" /\ x.status = "open"}}
    IN (IF groups = {} THEN 0 ELSE Max(groups)) + 1

\* The next lot id taken from the buy rows alone.
NextTradeGroupIdOfBuys(db) ==
    LET groups == {r.trade_group_id : r \in {x \in db.trades : x.trade_type = "buy"}} \ {NoneInt}
    IN (IF groups = {} THEN 0 ELSE Max(groups)) + 1

\* SELECT COALESCE(MAX(trade_group_id), 0) + 1 FROM trades_new: MAX skips NULL.
NextTradeGroupId(db) ==
    LET groups == {r.trade_group_id : r \in db.trades} \ {NoneInt}
    IN (IF groups = {} THEN 0 ELSE Max(groups)) + 1

\* The NOT NULL columns of trades_new. buy_date is NOT NULL too, but add_trade
\* puts today's date in when the caller gives none.
TradeNotNull(row) ==
    /\ row.stock_code # None
    /\ row.action_type # None
    /\ row.trade_type # None
    /\ row.buy_price # NoneInt
    /\ row.quantity # NoneInt

\* Python's truth of an Optional[int]: None and 0 are false.
Truthy(n) == n # NoneInt /\ n # 0

\* The UPDATE without the test on trade_type.
CloseRowsOfGroup(rows, trade_group_id, sell_date, sell_price) ==
    {IF r.trade_group_id = trade_group_id
        THEN [r EXCEPT !.status = "closed", !.sell_date = sell_date, !.sell_price = sell_price]
        ELSE r : r \in rows}

\* UPDATE trades_new SET status = '已结束', sell_date = ?, sell_price = ?
\* WHERE trade_group_id = ? AND trade_type = '买入'
CloseBuyRows(rows, trade_group_id, sell_date, sell_price) ==
    {IF r.trade_group_id = trade_group_id /\ r.trade_type = "buy"
        THEN [r EXCEPT !.status = "closed", !.sell_date = sell_date, !.sell_price = sell_price]
        ELSE r : r \in rows}

\* Database.add_trade. A write made while another connection holds the write
\* lock ends in OperationalError (database is locked). No path of add_trade
\* closes its connection when execute raises: the connection that met the
\* constraint keeps its open write transaction, and the lock, until it is
\* collected.
add_trade(db, trade) ==
    LET trade_group_id ==
            IF trade.trade_type = "buy" THEN NextTradeGroupId(db) ELSE trade.trade_group_id
        row == [id |-> db.tradeSeq + 1,
                trade_group_id |-> trade_group_id,
                stock_code |-> trade.stock_code,
                action_type |-> trade.action_type,
                trade_type |-> trade.trade_type,
                buy_date |-> trade.buy_date,
                sell_date |-> trade.sell_date,
                buy_price |-> trade.buy_price,
                sell_price |-> trade.sell_price,
                quantity |-> trade.quantity,
                status |-> trade.status]
        inserted == db.trades \cup {row}
        updated ==
            IF trade.trade_type = "sell" /\ Truthy(trade_group_id)
                THEN CloseBuyRows(inserted, trade_group_id, trade.sell_date, trade.sell_price)
                ELSE inserted
    IN IF db.locked THEN Raise(db, "OperationalError")
       ELSE IF ~TradeNotNull(row) THEN Raise([db EXCEPT !.locked = TRUE], "IntegrityError")
       ELSE Return([db EXCEPT !.trades = updated, !.tradeSeq = row.id], row.id)

\* The NOT NULL columns of scores_new (date is filled in like buy_date).
ScoreNotNull(row) ==
    /\ row.action_type # None
    /\ row.score_type # None
    /\ row.score # NoneInt

\* Database.add_score
add_score(db, score) ==
    LET row == [id |-> db.scoreSeq + 1,
                trade_id |-> score.trade_id,
                date |-> score.date,
                action_type |-> score.action_type,
                score_type |-> score.score_type,
                score |-> score.score]
    IN IF db.locked THEN Raise(db, "OperationalError")
       ELSE IF ~ScoreNotNull(row) THEN Raise([db EXCEPT !.locked = TRUE], "IntegrityError")
       ELSE Return([db EXCEPT !.scores = @ \cup {row}, !.scoreSeq = row.id], row.id)

\* Database.get_active_trades
get_active_trades(db) ==
    {r \in db.trades : r.status = "open" /\ r.trade_type = "buy"}

\* get_sold_quantity without the test on trade_type.
get_sold_quantity_any_type(db, trade_group_id) ==
    SumQuantity({r \in db.trades : r.trade_group_id = trade_group_id})

\* Database.get_sold_quantity
get_sold_quantity(db, trade_group_id) ==
    SumQuantity({r \in db.trades :
                    r.trade_group_id = trade_group_id /\ r.trade_type = "sell"})

\* update_trade_status as it would be if it wrote the recomputed status either
\* way: "open" again when less than the bought quantity is sold.
update_trade_status_recomputed(db, trade_group_id) ==
    LET buys == {r \in db.trades :
                    r.trade_group_id = trade_group_id /\ r.trade_type = "buy"}
        buy_quantity == (CHOOSE r \in buys : r.id = Min({b.id : b \in buys})).quantity
        sold_quantity == get_sold_quantity(db, trade_group_id)
        status == IF sold_quantity >= buy_quantity THEN "closed" ELSE "open"
    IN IF buys = {} THEN Return(db, FALSE)
       ELSE IF db.locked THEN Raise(db, "OperationalError")
       ELSE Return([db EXCEPT !.trades =
                        {IF r \in buys THEN [r EXCEPT !.status = status] ELSE r
                            : r \in db.trades}], TRUE)

\* Database.update_trade_status. fetchone() takes the first buy row of the
\* group, in rowid order. The UPDATE is the only write.
update_trade_status(db, trade_group_id) ==
    LET buys == {r \in db.trades :
                    r.trade_group_id = trade_group_id /\ r.trade_type = "buy"}
        buy_quantity == (CHOOSE r \in buys : r.id = Min({b.id : b \in buys})).quantity
        sold_quantity == get_sold_quantity(db, trade_group_id)
    IN IF buys = {} THEN Return(db, FALSE)
       ELSE IF sold_quantity >= buy_quantity
            THEN IF db.locked THEN Raise(db, "OperationalError")
                 ELSE Return([db EXCEPT !.trades =
                                {IF r \in buys THEN [r EXCEPT !.status = "closed"] ELSE r
                                    : r \in db.trades}], TRUE)
            ELSE Return(db, TRUE)

\* Database.delete_trade
delete_trade(db, trade_id) ==
    IF db.locked THEN Raise(db, "OperationalError")
    ELSE Return([db EXCEPT !.trades = {r \in @ : r.id # trade_id}],
                \E r \in db.trades : r.id = trade_id)

\* Database.delete_score
delete_score(db, score_id) ==
    IF db.locked THEN Raise(db, "OperationalError")
    ELSE Return([db EXCEPT !.scores = {r \in @ : r.id # score_id}],
                \E r \in db.scores : r.id = score_id)

\* ------------------------------------------------- the pure functions

\* detect_sell_action_type with the tie broken by >= instead of >.
detect_sell_action_type_tie(buy_price, sell_price) ==
    IF buy_price <= 0 \/ sell_price <= 0 THEN None
    ELSE IF 100 * (sell_price - buy_price) > buy_price THEN "profit-taken"
    ELSE IF 100 * (sell_price - buy_price) < 0 - buy_price THEN "loss-cut"
    ELSE IF sell_price >= buy_price THEN "profit-taken"
    ELSE "loss-cut"

\* detect_sell_action_type with the second threshold at +1% instead of -1%:
\* every rise of less than 1% is a loss.
detect_sell_action_type_band(buy_price, sell_price) ==
    IF buy_price <= 0 \/ sell_price <= 0 THEN None
    ELSE IF 100 * (sell_price - buy_price) > buy_price THEN "profit-taken"
    ELSE IF 100 * (sell_price - buy_price) < buy_price THEN "loss-cut"
    ELSE IF sell_price > buy_price THEN "profit-taken"
    ELSE "loss-cut"

\* detect_sell_action_type checking the buy price only.
detect_sell_action_type_unchecked(buy_price, sell_price) ==
    IF buy_price <= 0 THEN None
    ELSE IF 100 * (sell_price - buy_price) > buy_price THEN "profit-taken"
    ELSE IF 100 * (sell_price - buy_price) < 0 - buy_price THEN "loss-cut"
    ELSE IF sell_price > buy_price THEN "profit-taken"
    ELSE "loss-cut"

\* action_detector.detect_sell_action_type. With buy_price > 0 the source's
\* (sell_price - buy_price) / buy_price > 0.01 is 100 * (sell - buy) > buy.
detect_sell_action_type(buy_price, sell_price) ==
    IF buy_price <= 0 \/ sell_price <= 0 THEN None
    ELSE IF 100 * (sell_price - buy_price) > buy_price THEN "profit-taken"
    ELSE IF 100 * (sell_price - buy_price) < 0 - buy_price THEN "loss-cut"
    ELSE IF sell_price > buy_price THEN "profit-taken"
    ELSE "loss-cut"

\* ------------------------------------------- Python float arithmetic
\* The prices are Python floats (IEEE 754 binary64) and the source computes
\* with them: every +, -, *, / rounds its exact result to 53 significant
\* bits, to nearest, ties to even.  A float is [sign, mant, exp] of value
\* sign * mant * 2^exp with mant of exactly 53 bits, or mant empty for 0.
\* A mantissa is a natural number held as its digits in base 2^15, lowest
\* first, without leading zeros.

Base == 2^15
MantBits == 53

RECURSIVE BNorm(_)
BNorm(a) ==
    IF a = <<>> THEN a
    ELSE IF a[Len(a)] = 0 THEN BNorm(SubSeq(a, 1, Len(a) - 1))
    ELSE a

RECURSIVE BFromInt(_)
BFromInt(n) == IF n = 0 THEN <<>> ELSE <<n % Base>> \o BFromInt(n \div Base)

RECURSIVE BToInt(_)
BToInt(a) == IF a = <<>> THEN 0 ELSE a[1] + Base * BToInt(Tail(a))

RECURSIVE BCmpFrom(_, _, _)
BCmpFrom(a, b, i) ==
    IF i = 0 THEN 0
    ELSE IF a[i] > b[i] THEN 1
    ELSE IF a[i] < b[i] THEN 0 - 1
    ELSE BCmpFrom(a, b, i - 1)

\* 1, 0 or -1 as a is greater than, equal to or less than b
BCmp(a, b) ==
    IF Len(a) > Len(b) THEN 1
    ELSE IF Len(a) < Len(b) THEN 0 - 1
    ELSE BCmpFrom(a, b, Len(a))

RECURSIVE BAddC(_, _, _)
BAddC(a, b, carry) ==
    IF a = <<>> /\ b = <<>> THEN BFromInt(carry)
    ELSE LET x == (IF a = <<>> THEN 0 ELSE a[1]) + (IF b = <<>> THEN 0 ELSE b[1]) + carry
         IN <<x % Base>> \o BAddC(IF a = <<>> THEN a ELSE Tail(a),
                                  IF b = <<>> THEN b ELSE Tail(b), x \div Base)

BAdd(a, b) == BAddC(a, b, 0)

RECURSIVE BSubB(_, _, _)
BSubB(a, b, borrow) ==
    IF a = <<>> THEN <<>>
    ELSE LET x == a[1] - (IF b = <<>> THEN 0 ELSE b[1]) - borrow
         IN <<x % Base>> \o BSubB(Tail(a), IF b = <<>> THEN b ELSE Tail(b),
                                  IF x < 0 THEN 1 ELSE 0)

\* a - b, for a >= b
BSub(a, b) == BNorm(BSubB(a, b, 0))

RECURSIVE BMulSmallC(_, _, _)
BMulSmallC(a, k, carry) ==
    IF a = <<>> THEN BFromInt(carry)
    ELSE LET x == a[1] * k + carry
         IN <<x % Base>> \o BMulSmallC(Tail(a), k, x \div Base)

\* a * k, for k < Base
BMulSmall(a, k) == IF k = 0 THEN <<>> ELSE BMulSmallC(a, k, 0)

RECURSIVE BMul(_, _)
BMul(a, b) ==
    IF a = <<>> \/ b = <<>> THEN <<>>
    ELSE LET rest == BMul(a, Tail(b))
         IN BAdd(BMulSmall(a, b[1]), IF rest = <<>> THEN rest ELSE <<0>> \o rest)

RECURSIVE BDivSmallFrom(_, _, _, _)
BDivSmallFrom(a, d, i, r) ==
    IF i = 0 THEN [q |-> <<>>, r |-> r]
    ELSE LET x == r * Base + a[i]
             rest == BDivSmallFrom(a, d, i - 1, x % d)
         IN [q |-> Append(rest.q, x \div d), r |-> rest.r]

\* quotient and remainder of a by d, for 0 < d <= Base
BDivSmall(a, d) ==
    LET qr == BDivSmallFrom(a, d, Len(a), 0)
    IN [q |-> BNorm(qr.q), r |-> qr.r]

\* a * 2^n
BShl(a, n) ==
    IF a = <<>> THEN a
    ELSE [i \in 1 .. n \div 15 |-> 0] \o BMulSmall(a, 2^(n % 15))

\* a \div 2^n
BShr(a, n) ==
    IF n \div 15 >= Len(a) THEN <<>>
    ELSE BDivSmall(SubSeq(a, n \div 15 + 1, Len(a)), 2^(n % 15)).q

RECURSIVE IntBits(_)
IntBits(n) == IF n = 0 THEN 0 ELSE 1 + IntBits(n \div 2)

\* the number of bits of a
BitLen(a) == IF a = <<>> THEN 0 ELSE 15 * (Len(a) - 1) + IntBits(a[Len(a)])

RECURSIVE BDivBits(_, _, _, _)
BDivBits(q, r, d, k) ==
    IF k = 0 THEN [q |-> q, r |-> r]
    ELSE LET r2 == BMulSmall(r, 2)
             q2 == BMulSmall(q, 2)
             more == BCmp(r2, d) >= 0
             q3 == IF more THEN BAdd(q2, <<1>>) ELSE q2
             r3 == IF more THEN BSub(r2, d) ELSE r2
         IN IF Len(q3) + Len(r3) >= 0 THEN BDivBits(q3, r3, d, k - 1)
            ELSE [q |-> q3, r |-> r3]

\* quotient and remainder of a * 2^k by d, for a < 2 * d
BDivShifted(a, d, k) ==
    IF BCmp(a, d) >= 0 THEN BDivBits(<<1>>, BSub(a, d), d, k)
    ELSE BDivBits(<<>>, a, d, k)

FZero == [sign |-> 1, mant |-> <<>>, exp |-> 0]

\* n * 2^e made a float exactly, for n of at most 53 bits or n = 2^53
FNormal(sign, n, e) ==
    IF n = <<>> THEN FZero
    ELSE IF BitLen(n) > MantBits THEN [sign |-> sign, mant |-> BShr(n, 1), exp |-> e + 1]
    ELSE [sign |-> sign, mant |-> BShl(n, MantBits - BitLen(n)),
          exp |-> e - (MantBits - BitLen(n))]

\* sign * n * 2^e rounded to the nearest float, ties to even
FRound(sign, n, e) ==
    LET drop == BitLen(n) - MantBits
        kept == BShr(n, drop)
        rest == BSub(n, BShl(kept, drop))
        half == BCmp(rest, BShl(<<1>>, drop - 1))
        up == half > 0 \/ (half = 0 /\ kept[1] % 2 = 1)
    IN IF drop <= 0 THEN FNormal(sign, n, e)
       ELSE FNormal(sign, IF up THEN BAdd(kept, <<1>>) ELSE kept, e + drop)

\* the exact difference a - b, as sign * n * 2^e
FExactSub(a, b) ==
    LET e == IF a.mant = <<>> THEN b.exp
             ELSE IF b.mant = <<>> THEN a.exp
             ELSE Min({a.exp, b.exp})
        x == BShl(a.mant, a.exp - e)
        y == BShl(b.mant, b.exp - e)
        bsign == 0 - b.sign
    IN IF a.mant = <<>> THEN [sign |-> bsign, n |-> y, e |-> e]
       ELSE IF b.mant = <<>> THEN [sign |-> a.sign, n |-> x, e |-> e]
       ELSE IF a.sign = bsign THEN [sign |-> a.sign, n |-> BAdd(x, y), e |-> e]
       ELSE IF BCmp(x, y) >= 0 THEN [sign |-> a.sign, n |-> BSub(x, y), e |-> e]
       ELSE [sign |-> bsign, n |-> BSub(y, x), e |-> e]

FNeg(a) == IF a.mant = <<>> THEN a ELSE [a EXCEPT !.sign = 0 - a.sign]

FSub(a, b) ==
    LET d == FExactSub(a, b)
    IN IF d.n = <<>> THEN FZero ELSE FRound(d.sign, d.n, d.e)

FAdd(a, b) == FSub(a, FNeg(b))

\* 1, 0 or -1 as a is greater than, equal to or less than b
FCmp(a, b) ==
    LET d == FExactSub(a, b)
    IN IF d.n = <<>> THEN 0 ELSE d.sign

FMul(a, b) ==
    IF a.mant = <<>> \/ b.mant = <<>> THEN FZero
    ELSE FRound(a.sign * b.sign, BMul(a.mant, b.mant), a.exp + b.exp)

\* a / b for b # 0: 57 quotient bits and one more that says whether a
\* remainder is left, so that the rounding sees on which side of a tie it is
FDiv(a, b) ==
    LET quot == BDivShifted(a.mant, b.mant, 57)
        bits == BAdd(BMulSmall(quot.q, 2), IF quot.r = <<>> THEN <<>> ELSE <<1>>)
    IN IF a.mant = <<>> THEN FZero
       ELSE FRound(a.sign * b.sign, bits, a.exp - b.exp - 58)

\* float(n) of an integer n
FInt(n) ==
    IF n >= 0 THEN FNormal(1, BFromInt(n), 0) ELSE FNormal(0 - 1, BFromInt(0 - n), 0)

\* int(a): a with its fraction cut off
FTrunc(a) ==
    IF a.mant = <<>> THEN 0
    ELSE IF a.exp >= 0 THEN a.sign * BToInt(BShl(a.mant, a.exp))
    ELSE a.sign * BToInt(BShr(a.mant, 0 - a.exp))

\* The float a form has for a price of p hundredths: the float nearest to
\* p / 100.
Price(p) == FDiv(FInt(p), FInt(100))

\* score_calculator.calculate_objective_score, line 33
ProfitRate(buy_price, sell_price) ==
    LET buy == Price(buy_price)
    IN FMul(FDiv(FSub(Price(sell_price), buy), buy), FInt(100))

\* int(max_score * (profit_rate / full))
LinearScore(max_score, full, profit_rate) ==
    FTrunc(FMul(FInt(max_score), FDiv(profit_rate, FInt(full))))

\* RisingScore scoring the size of the move: a loss counts as the gain of
\* the same size.
RisingScoreOfSize(max_score, full, profit_rate) ==
    LET size == IF FCmp(profit_rate, FZero) >= 0 THEN profit_rate ELSE FNeg(profit_rate)
    IN IF FCmp(size, FInt(full)) >= 0 THEN max_score
       ELSE LinearScore(max_score, full, size)

\* RisingScore without the branch that caps the score at full marks.
RisingScoreUncapped(max_score, full, profit_rate) ==
    IF FCmp(profit_rate, FZero) >= 0 THEN LinearScore(max_score, full, profit_rate)
    ELSE 0

\* The branches for the three categories that score a gain: full marks from
\* `full` percent up, int(max_score * (profit_rate / full)) below it, 0 for a loss.
RisingScore(max_score, full, profit_rate) ==
    IF FCmp(profit_rate, FInt(full)) >= 0 THEN max_score
    ELSE IF FCmp(profit_rate, FZero) >= 0 THEN LinearScore(max_score, full, profit_rate)
    ELSE 0

\* The branch for loss-cut: full marks for any gain and for a loss of 5
\* percent or more, int(max_score * (1 + profit_rate / 5)) in between.
LossCutScore(max_score, profit_rate) ==
    IF FCmp(profit_rate, FZero) >= 0 THEN max_score
    ELSE IF FCmp(profit_rate, FInt(0 - 5)) <= 0 THEN max_score
    ELSE FTrunc(FMul(FInt(max_score), FAdd(FInt(1), FDiv(profit_rate, FInt(5)))))

\* The branch on action_type, lines 39 to 81.
BranchScore(action_type, max_score, profit_rate) ==
    CASE action_type = "profit-taken" -> RisingScore(max_score, 5, profit_rate)
      [] action_type = "dipped-then-bought" -> RisingScore(max_score, 10, profit_rate)
      [] action_type = "rallied-then-bought" -> RisingScore(max_score, 8, profit_rate)
      [] action_type = "loss-cut" -> LossCutScore(max_score, profit_rate)
      [] OTHER -> 0

\* calculate_objective_score refusing only a buy price of exactly 0.
calculate_objective_score_zero_only(action_type, buy_price, sell_price) ==
    LET max_score == IF action_type \in DOMAIN ACTION_TYPES
                        THEN ACTION_TYPES[action_type].max_score ELSE 20
    IN IF buy_price = 0 THEN 0
       ELSE Max({0, Min({100, BranchScore(action_type, max_score,
                                          ProfitRate(buy_price, sell_price))})})

\* score_calculator.calculate_objective_score
calculate_objective_score(action_type, buy_price, sell_price) ==
    LET max_score == IF action_type \in DOMAIN ACTION_TYPES
                        THEN ACTION_TYPES[action_type].max_score ELSE 20
    IN IF buy_price <= 0 THEN 0
       ELSE Max({0, Min({100, BranchScore(action_type, max_score,
                                          ProfitRate(buy_price, sell_price))})})

\* ------------------------------------------------ classifying a buy
\* The provider behind TushareClient is [configured, reply]: reply.kind is
\* "raises" when pro.daily raises, "none" when it returns None, and "data"
\* when it returns the rows reply.rows, each [trade_date, close], in any
\* order.  A buy date is a day number, or NoneInt for a string that
\* strptime cannot parse.

\* sort_values('trade_date')
RECURSIVE SortByTradeDate(_)
SortByTradeDate(rows) ==
    IF rows = {} THEN <<>>
    ELSE LET first == CHOOSE r \in rows : \A x \in rows : r.trade_date <= x.trade_date
         IN <<first>> \o SortByTradeDate(rows \ {first})

\* pro.daily: the provider's answer, or the exception it raises.
pro_daily(tushare_client) ==
    IF tushare_client.reply.kind = "raises" THEN [ret |-> None, rows |-> {}, exc |-> "Exception"]
    ELSE IF tushare_client.reply.kind = "none" THEN [ret |-> None, rows |-> {}, exc |-> "none"]
    ELSE [ret |-> "DataFrame", rows |-> tushare_client.reply.rows, exc |-> "none"]

\* TushareClient.get_stock_daily: None when not configured and when
\* pro.daily raises (caught at line 113) or returns None, otherwise the
\* DataFrame pro.daily returned, its rows sorted by date when it has any.
get_stock_daily(tushare_client) ==
    LET df == pro_daily(tushare_client)
    IN IF ~tushare_client.configured THEN [df |-> None, rows |-> <<>>]
       ELSE IF df.exc # "none" THEN [df |-> None, rows |-> <<>>]
       ELSE IF df.ret = None THEN [df |-> None, rows |-> <<>>]
       ELSE [df |-> "DataFrame", rows |-> SortByTradeDate(df.rows)]

\* Series.mean() over float64: the closes added up one after the other,
\* starting from 0.0, and the sum divided by their number.
RECURSIVE FSumClose(_, _, _)
FSumClose(rows, i, sum) ==
    IF i > Len(rows) THEN sum
    ELSE FSumClose(rows, i + 1, FAdd(sum, Price(rows[i].close)))

\* Lines 61 to 76, on the rows that are left and the float buy price.
BuyLabelOf(future_data, buy) ==
    LET avg_close == FDiv(FSumClose(future_data, 1, FZero), FInt(Len(future_data)))
        last_close == Price(future_data[Len(future_data)].close)
    IN IF FCmp(last_close, FMul(buy, Price(101))) > 0 THEN "rallied-then-bought"
       ELSE IF FCmp(last_close, FMul(buy, Price(99))) < 0 THEN "dipped-then-bought"
       ELSE IF FCmp(avg_close, buy) > 0 THEN "rallied-then-bought"
       ELSE "dipped-then-bought"

FutureDataSameDay(rows, buy_date, days_to_check) ==
    LET After(row) == row.trade_date >= buy_date
        future_data == SelectSeq(rows, After)
    IN SubSeq(future_data, 1, Min({days_to_check, Len(future_data)}))

\* The rows detect_buy_action_type keeps: those dated after the buy date,
\* and of them the first days_to_check (lines 50 and 56).
FutureData(rows, buy_date, days_to_check) ==
    LET After(row) == row.trade_date > buy_date
        future_data == SelectSeq(rows, After)
    IN SubSeq(future_data, 1, Min({days_to_check, Len(future_data)}))

\* The try block of detect_buy_action_type, lines 33 to 76: what it returns,
\* or the exception that leaves it (strptime raises ValueError on a date it
\* cannot parse).
detect_buy_try(tushare_client, buy_date, buy_price, days_to_check) ==
    LET daily_data == get_stock_daily(tushare_client)
        future_data == FutureData(daily_data.rows, buy_date, days_to_check)
    IN IF buy_date = NoneInt THEN [ret |-> None, exc |-> "ValueError"]
       ELSE IF daily_data.df = None THEN [ret |-> None, exc |-> "none"]
       ELSE IF daily_data.rows = <<>> THEN [ret |-> None, exc |-> "none"]
       ELSE IF future_data = <<>> THEN [ret |-> None, exc |-> "none"]
       ELSE [ret |-> BuyLabelOf(future_data, Price(buy_price)), exc |-> "none"]

detect_buy_action_type_uncaught(tushare_client, buy_date, buy_price, days_to_check) ==
    IF ~tushare_client.configured THEN [ret |-> None, exc |-> "none"]
    ELSE detect_buy_try(tushare_client, buy_date, buy_price, days_to_check)

\* action_detector.detect_buy_action_type: None without a token, otherwise
\* the try block, and None for every exception that leaves it (line 78).
detect_buy_action_type(tushare_client, buy_date, buy_price, days_to_check) ==
    LET tried == detect_buy_try(tushare_client, buy_date, buy_price, days_to_check)
    IN IF ~tushare_client.configured THEN [ret |-> None, exc |-> "none"]
       ELSE IF tried.exc # "none" THEN [ret |-> None, exc |-> "none"]
       ELSE tried

\* ------------------------------------------------------- the handlers

\* The score of a star level with the maximum spread over four levels.
StarScoreOfFour(action_type, star_level) ==
    (star_level * ACTION_TYPES[action_type].max_score) \div 4

\* app.py: score = int(star_level * level_score), level_score = max_score / 5
StarScore(action_type, star_level) ==
    (star_level * ACTION_TYPES[action_type].max_score) \div 5

\* The Score records a form saves: one for each rated category, in the
\* order of the form's cards, each with a score above 0.
RatedScores(order, stars, trade_id, date) ==
    LET rated == SelectSeq(order, LAMBDA a : StarScore(a, stars[a]) > 0)
    IN [i \in 1 .. Len(rated) |->
            [trade_id |-> trade_id, date |-> date, action_type |-> rated[i],
             score_type |-> "subjective", score |-> StarScore(rated[i], stars[rated[i]])]]

\* A run of db.add_score calls; the first exception ends it.
RECURSIVE AddScores(_, _)
AddScores(db, records) ==
    IF records = <<>> THEN Return(db, NoneInt)
    ELSE LET r == add_score(db, Head(records))
         IN IF r.exc # "none" THEN r ELSE AddScores(r.db, Tail(records))

Commit(db) ==
    /\ trades' = db.trades
    /\ scores' = db.scores
    /\ tradeSeq' = db.tradeSeq
    /\ scoreSeq' = db.scoreSeq
    /\ locked' = db.locked

\* exc is the exception that ended the operation, "none" when it returned,
\* "st.error" when a handler refused the form with a message and "not saved"
\* when it ended without saving and without a message.
Called(op, exc) == last' = [op |-> op, exc |-> exc]

\* The record the buy form hands to add_trade: no lot id yet, status open.
BuyTrade(stock_code, buy_date, buy_price, quantity, action_type) ==
    [trade_group_id |-> NoneInt, stock_code |-> stock_code,
     action_type |-> action_type, trade_type |-> "buy",
     buy_date |-> buy_date, sell_date |-> NoneInt,
     buy_price |-> buy_price, sell_price |-> NoneInt,
     quantity |-> quantity, status |-> "open"]

\* app.py, the buy form and its buy_submit handler. detected is
\* st.session_state.detected_buy_action (None when absent), found is what
\* detect_buy_action_type answers when the handler asks it, stars the two
\* star levels of the form.
BuySubmit(stock_code, buy_date, buy_price, quantity, manual, detected, configured, found, stars) ==
    LET shown == IF stock_code # "" /\ buy_price > 0 /\ detected # None
                    THEN detected ELSE manual
        action_type == IF detected = None /\ configured THEN found ELSE shown
        trade == BuyTrade(stock_code, buy_date, buy_price, quantity, action_type)
        added == add_trade(DB, trade)
        saved == AddScores(added.db,
                    RatedScores(<<"dipped-then-bought", "rallied-then-bought">>,
                                stars, added.ret, buy_date))
    IN IF stock_code = "" \/ buy_price <= 0 \/ quantity <= 0
          THEN /\ Called("buy_submit", "st.error")
               /\ UNCHANGED <<trades, scores, tradeSeq, scoreSeq, locked, call>>
       ELSE IF action_type = None
          THEN /\ Called("buy_submit", "not saved")
               /\ UNCHANGED <<trades, scores, tradeSeq, scoreSeq, locked, call>>
       ELSE IF added.exc # "none"
          THEN /\ Commit(added.db)
               /\ Called("buy_submit", added.exc)
               /\ UNCHANGED call
       ELSE /\ saved.db.tradeSeq <= MaxTrades
            /\ saved.db.scoreSeq <= MaxScores
            /\ Commit(saved.db)
            /\ Called("buy_submit", saved.exc)
            /\ UNCHANGED call

\* app.py, the sell form and its sell_submit handler, for the lot picked
\* among get_active_trades().
SellSubmit(selected_trade, sell_quantity, sell_date, sell_price, stars) ==
    LET trade_group_id == selected_trade.trade_group_id
        sold_quantity == get_sold_quantity(DB, trade_group_id)
        remaining_quantity == selected_trade.quantity - sold_quantity
        sell_trade == [trade_group_id |-> trade_group_id,
                       stock_code |-> selected_trade.stock_code,
                       action_type |-> None, trade_type |-> "sell",
                       buy_date |-> selected_trade.buy_date,
                       sell_date |-> sell_date,
                       buy_price |-> selected_trade.buy_price,
                       sell_price |-> sell_price,
                       quantity |-> sell_quantity, status |-> "closed"]
        added == add_trade(DB, sell_trade)
        status == update_trade_status(added.db, trade_group_id)
        sell_action_type == detect_sell_action_type(selected_trade.buy_price, sell_price)
        subjective == RatedScores(<<"profit-taken", "loss-cut">>, stars,
                                  added.ret, sell_date)
        objective ==
            IF sell_action_type = None THEN <<>>
            ELSE <<[trade_id |-> added.ret, date |-> sell_date,
                    action_type |-> sell_action_type, score_type |-> "objective",
                    score |-> calculate_objective_score(sell_action_type,
                                selected_trade.buy_price, sell_price)]>>
        saved == AddScores(status.db, subjective \o objective)
    IN IF sell_price <= 0 \/ sell_quantity <= 0 \/ sell_quantity > remaining_quantity
          THEN /\ Called("sell_submit", "st.error")
               /\ UNCHANGED <<trades, scores, tradeSeq, scoreSeq, locked, call>>
       ELSE IF added.exc # "none"
          THEN /\ Commit(added.db)
               /\ Called("sell_submit", added.exc)
               /\ UNCHANGED call
       ELSE IF status.exc # "none"
          THEN /\ status.db.tradeSeq <= MaxTrades
               /\ Commit(status.db)
               /\ Called("sell_submit", status.exc)
               /\ UNCHANGED call
       ELSE /\ saved.db.tradeSeq <= MaxTrades
            /\ saved.db.scoreSeq <= MaxScores
            /\ Commit(saved.db)
            /\ Called("sell_submit", saved.exc)
            /\ UNCHANGED call

\* The quantity field of the sell form: number_input(min_value=1,
\* max_value=remaining if remaining > 0 else 1).
SellQuantityField(selected_trade) ==
    LET remaining_quantity ==
            selected_trade.quantity - get_sold_quantity(DB, selected_trade.trade_group_id)
    IN {q \in SellQuantities \cup {1} : q <= Max({remaining_quantity, 1})}

\* ------------------------------------------- the ledger's own operations

\* The record the sell form hands to add_trade, for any lot and quantity.
SellTrade(trade_group_id, quantity, quote, action_type) ==
    [trade_group_id |-> trade_group_id, stock_code |-> CHOOSE c \in StockCodes : TRUE,
     action_type |-> action_type, trade_type |-> "sell",
     buy_date |-> CHOOSE d \in BuyDates : TRUE, sell_date |-> quote.sell_date,
     buy_price |-> CHOOSE b \in BuyPrices : TRUE, sell_price |-> quote.sell_price,
     quantity |-> quantity, status |-> "closed"]

\* The labels a sell record is given: none, as the sell form gives it, or the
\* label detect_sell_action_type finds for its prices.
SellRecordLabels(quote) ==
    {None, detect_sell_action_type(CHOOSE b \in BuyPrices : TRUE, quote.sell_price)}

\* ------------------------------------------------- the daily self-check

\* ORDER BY date ASC, rows of one date in rowid order.
RECURSIVE OrderByDate(_)
OrderByDate(rows) ==
    IF rows = {} THEN <<>>
    ELSE LET first == CHOOSE r \in rows :
                        \A o \in rows : r.date < o.date \/ (r.date = o.date /\ r.id <= o.id)
         IN <<first>> \o OrderByDate(rows \ {first})

\* get_scores_by_date_range with the end date left out of the range.
get_scores_before_end(db, start_date, end_date, score_type) ==
    LET found == OrderByDate({r \in db.scores :
                    /\ r.date >= start_date
                    /\ r.date < end_date
                    /\ (score_type # None => r.score_type = score_type)})
    IN [i \in 1 .. Len(found) |->
            [date |-> found[i].date, action_type |-> found[i].action_type,
             score_type |-> found[i].score_type, score |-> found[i].score]]

\* Database.get_scores_by_date_range: the DataFrame's rows, each with the
\* columns the query selects (date, action_type, score_type, score; id is not
\* among them). score_type None asks for every kind.
get_scores_by_date_range(db, start_date, end_date, score_type) ==
    LET found == OrderByDate({r \in db.scores :
                    /\ r.date >= start_date
                    /\ r.date <= end_date
                    /\ (score_type # None => r.score_type = score_type)})
    IN [i \in 1 .. Len(found) |->
            [date |-> found[i].date, action_type |-> found[i].action_type,
             score_type |-> found[i].score_type, score |-> found[i].score]]

\* app.py, daily_submit: for _, old_score in today_scores.iterrows():
\* db.delete_score(old_score['id']). A row without the column raises KeyError.
RECURSIVE DeleteOldScores(_, _)
DeleteOldScores(db, today_scores) ==
    IF today_scores = <<>> THEN Return(db, NoneInt)
    ELSE IF "id" \notin DOMAIN Head(today_scores) THEN Raise(db, "KeyError")
    ELSE LET r == delete_score(db, Head(today_scores).id)
         IN IF r.exc # "none" THEN r ELSE DeleteOldScores(r.db, Tail(today_scores))

\* calculate_total_score(subjective_scores)
TotalScore(stars) ==
    StarScore("profit-taken", stars["profit-taken"])
    + StarScore("dipped-then-bought", stars["dipped-then-bought"])
    + StarScore("rallied-then-bought", stars["rallied-then-bought"])
    + StarScore("loss-cut", stars["loss-cut"])

\* app.py, the daily card form, its daily_submit handler and save_daily_scores.
DailySubmit(selected_date, stars) ==
    LET today_scores ==
            get_scores_by_date_range(DB, selected_date, selected_date, "subjective")
        cleared == DeleteOldScores(DB, today_scores)
        saved == AddScores(cleared.db, RatedScores(ActionOrder, stars, NoneInt, selected_date))
    IN /\ call' = [fn |-> "daily_submit", date |-> selected_date, stars |-> stars]
       /\ IF TotalScore(stars) = 0
             THEN /\ Called("daily_submit", "st.warning")
                  /\ UNCHANGED <<trades, scores, tradeSeq, scoreSeq, locked>>
          ELSE IF cleared.exc # "none"
             THEN /\ Commit(cleared.db)
                  /\ Called("daily_submit", cleared.exc)
          ELSE /\ saved.db.scoreSeq <= MaxScores
               /\ Commit(saved.db)
               /\ Called("daily_submit", saved.exc)

\* ------------------------------------------------------------ actions

\* The star levels the ledger's runs fill a form with: nothing rated, or one
\* category rated three stars.
StarPicks(labels) ==
    LET one == CHOOSE a \in labels : TRUE
    IN {[a \in labels |-> 0], [a \in labels |-> IF a = one THEN 3 ELSE 0]}

\* The label picked by hand on the buy form.
ManualLabel == "rallied-then-bought"

\* A buy filed with the label picked by hand, no label detected before the
\* submission: the provider is configured or not, and when it is asked on
\* submission it has no label to give.
buy_submit ==
    \E stock_code \in StockCodes, buy_date \in BuyDates, buy_price \in BuyPrices,
       quantity \in BuyQuantities \cup {0}, stars \in StarPicks(BuyLabels),
       configured \in BOOLEAN :
        BuySubmit(stock_code, buy_date, buy_price, quantity, ManualLabel,
                  None, configured, None, stars)

sell_submit ==
    \E selected_trade \in get_active_trades(DB) :
        \E sell_quantity \in SellQuantityField(selected_trade),
           quote \in SellQuotes \cup {[sell_date |-> 1, sell_price |-> 0]},
           stars \in StarPicks(SellLabels) :
            SellSubmit(selected_trade, sell_quantity, quote.sell_date, quote.sell_price, stars)

\* insertBuy(buyRow): Database.add_trade given a buy record; last keeps what
\* the call returned.
InsertBuy ==
    \E stock_code \in StockCodes, buy_date \in BuyDates, buy_price \in BuyPrices,
       quantity \in BuyQuantities, action_type \in BuyLabels :
        LET added == add_trade(DB, BuyTrade(stock_code, buy_date, buy_price,
                                            quantity, action_type))
        IN /\ added.db.tradeSeq <= MaxTrades
           /\ Commit(added.db)
           /\ last' = [op |-> "add_trade", exc |-> added.exc, ret |-> added.ret]
           /\ UNCHANGED call

\* insertSell(lotId, sellRow): Database.add_trade given a sell record.
InsertSell ==
    \E trade_group_id \in 1 .. MaxTrades, quantity \in SellQuantities, quote \in SellQuotes :
        \E action_type \in SellRecordLabels(quote) :
            LET added == add_trade(DB, SellTrade(trade_group_id, quantity, quote, action_type))
            IN /\ added.db.tradeSeq <= MaxTrades
               /\ Commit(added.db)
               /\ last' = [op |-> "add_trade", exc |-> added.exc, ret |-> added.ret]
               /\ UNCHANGED call

UpdateTradeStatus ==
    \E trade_group_id \in 1 .. MaxTrades :
        LET status == update_trade_status(DB, trade_group_id)
        IN /\ Commit(status.db)
           /\ Called("update_trade_status", status.exc)
           /\ UNCHANGED call

\* deleteTrade(id) and deleteScore(id): the Database methods, for any id;
\* last keeps the id asked for and what the call returned.
DeleteTrade ==
    \E trade_id \in 1 .. MaxTrades :
        LET deleted == delete_trade(DB, trade_id)
        IN /\ Commit(deleted.db)
           /\ last' = [op |-> "delete_trade", exc |-> deleted.exc,
                       id |-> trade_id, ret |-> deleted.ret]
           /\ UNCHANGED call

DeleteScore ==
    \E score_id \in 1 .. MaxScores :
        LET deleted == delete_score(DB, score_id)
        IN /\ Commit(deleted.db)
           /\ last' = [op |-> "delete_score", exc |-> deleted.exc,
                       id |-> score_id, ret |-> deleted.ret]
           /\ UNCHANGED call

\* The collector frees the connection a failed insert left open: its
\* transaction is rolled back and the write lock released.
GarbageCollect ==
    /\ locked
    /\ locked' = FALSE
    /\ Called("gc", "none")
    /\ UNCHANGED <<trades, scores, tradeSeq, scoreSeq, call>>

NoCall == [fn |-> "none"]

Init ==
    /\ trades = {}
    /\ scores = {}
    /\ tradeSeq = 0
    /\ scoreSeq = 0
    /\ locked = FALSE
    /\ last = [op |-> "init", exc |-> "none"]
    /\ call = NoCall

Next ==
    \/ buy_submit
    \/ InsertBuy
    \/ sell_submit
    \/ InsertSell
    \/ UpdateTradeStatus
    \/ DeleteTrade
    \/ DeleteScore
    \/ GarbageCollect

Spec == Init /\ [][Next]_vars

\* The cards the daily runs fill in: any of two categories rated four stars.
DailyForms ==
    {[a \in DOMAIN ACTION_TYPES |-> IF a \in rated THEN 4 ELSE 0] :
        rated \in SUBSET {"profit-taken", "loss-cut"}}

daily_submit ==
    \E selected_date \in 1 .. MaxDay, stars \in DailyForms :
        DailySubmit(selected_date, stars)

NextDaily ==
    \/ daily_submit
    \/ DeleteScore

SpecDaily == Init /\ [][NextDaily]_vars

\* The pure functions are run on arguments drawn at the start: call holds
\* the arguments until the function is applied, and its result after.
InitFunctions ==
    /\ trades = {}
    /\ scores = {}
    /\ tradeSeq = 0
    /\ scoreSeq = 0
    /\ locked = FALSE
    /\ last = [op |-> "init", exc |-> "none"]
    /\ \E buy_price \in (0 - 1) .. MaxPrice, sell_price \in (0 - 1) .. MaxPrice :
            call = [fn |-> "none", buy_price |-> buy_price, sell_price |-> sell_price]

\* A call of detect_sell_action_type, which has no raise statement: it ends
\* by returning a label or None.
DetectSell ==
    /\ call.fn = "none"
    /\ call' = [fn |-> "detect_sell_action_type", buy_price |-> call.buy_price,
                sell_price |-> call.sell_price,
                ret |-> detect_sell_action_type(call.buy_price, call.sell_price),
                exc |-> "none"]
    /\ UNCHANGED <<trades, scores, tradeSeq, scoreSeq, locked, last>>

NextFunctions ==
    \/ DetectSell

SpecFunctions == InitFunctions /\ [][NextFunctions]_vars

\* The objective score is computed for a category and two prices drawn at
\* the start.  The buy prices are 0.20, 1.00, 1.40, 2.50 and 100.00, and 0 and
\* -0.01 which are no prices; the sell prices go in steps of half a percent
\* of the buy price, ScoreSpread percent down and up, and 1.00, 0 and -0.01.
ScoreSpread == 12
ScoreBuyPrices == {20, 100, 140, 250, 10000}
ScoreCategories == DOMAIN ACTION_TYPES \cup {"unknown"}

ScoreSellPrices(buy_price) ==
    {(buy_price * (200 + k)) \div 200 : k \in (0 - 2 * ScoreSpread) .. (2 * ScoreSpread)}
        \cup {0, 0 - 1, 100}

InitScores ==
    /\ trades = {}
    /\ scores = {}
    /\ tradeSeq = 0
    /\ scoreSeq = 0
    /\ locked = FALSE
    /\ last = [op |-> "init", exc |-> "none"]
    /\ \E action_type \in ScoreCategories, buy_price \in ScoreBuyPrices \cup {0, 0 - 1} :
          \E sell_price \in ScoreSellPrices(buy_price) :
              call = [fn |-> "none", action_type |-> action_type,
                      buy_price |-> buy_price, sell_price |-> sell_price]

ObjectiveScore ==
    /\ call.fn = "none"
    /\ call' = [fn |-> "calculate_objective_score", action_type |-> call.action_type,
                buy_price |-> call.buy_price, sell_price |-> call.sell_price,
                ret |-> calculate_objective_score(call.action_type, call.buy_price,
                                                  call.sell_price),
                exc |-> "none"]
    /\ UNCHANGED <<trades, scores, tradeSeq, scoreSeq, locked, last>>

NextScores ==
    \/ ObjectiveScore

SpecScores == InitScores /\ [][NextScores]_vars

\* A buy is classified for a provider, a buy date and a buy price drawn at
\* the start.  The buy is on day 0 at 1.00 and DaysToCheck days are looked
\* at (the forms ask for 5); the provider has at most one row for each of
\* the days 0 .. MaxTradeDate, its close one of five prices around the buy
\* price (1.02 on the buy date itself, a row the classification must skip).
MaxTradeDate == 3
DaysToCheck == 2
ClosePrices == {98, 99, 100, 101, 102}

Replies ==
    {[kind |-> "raises", rows |-> {}], [kind |-> "none", rows |-> {}]}
        \cup {[kind |-> "data",
                rows |-> {[trade_date |-> d, close |-> close[d]] : d \in days}] :
                    days \in SUBSET (0 .. MaxTradeDate),
                    close \in {f \in [0 .. MaxTradeDate -> ClosePrices] : f[0] = 102}}

InitDetectBuy ==
    /\ trades = {}
    /\ scores = {}
    /\ tradeSeq = 0
    /\ scoreSeq = 0
    /\ locked = FALSE
    /\ last = [op |-> "init", exc |-> "none"]
    /\ \E configured \in BOOLEAN, reply \in Replies, buy_date \in {0, NoneInt},
          days_to_check \in {DaysToCheck} :
            /\ (~configured \/ buy_date = NoneInt) => reply.kind = "raises"
            /\ call = [fn |-> "none", tushare_client |-> [configured |-> configured, reply |-> reply],
                       buy_date |-> buy_date, buy_price |-> 100,
                       days_to_check |-> days_to_check]

DetectBuy ==
    /\ call.fn = "none"
    /\ \E result \in {detect_buy_action_type(call.tushare_client, call.buy_date,
                                             call.buy_price, call.days_to_check)} :
            call' = [fn |-> "detect_buy_action_type", tushare_client |-> call.tushare_client,
                     buy_date |-> call.buy_date, buy_price |-> call.buy_price,
                     days_to_check |-> call.days_to_check,
                     ret |-> result.ret, exc |-> result.exc]
    /\ UNCHANGED <<trades, scores, tradeSeq, scoreSeq, locked, last>>

NextDetectBuy ==
    \/ DetectBuy

SpecDetectBuy == InitDetectBuy /\ [][NextDetectBuy]_vars

\* The ledger's operations with a reader between them: get_sold_quantity is
\* asked for any lot id, and the answer stays in call until the caller has
\* taken it.
GetSoldQuantity ==
    /\ call = NoCall
    /\ \E trade_group_id \in 0 .. MaxTrades + 1 :
        call' = [fn |-> "get_sold_quantity", trade_group_id |-> trade_group_id,
                 ret |-> get_sold_quantity(DB, trade_group_id)]
    /\ Called("get_sold_quantity", "none")
    /\ UNCHANGED <<trades, scores, tradeSeq, scoreSeq, locked>>

ReturnCall ==
    /\ call # NoCall
    /\ call' = NoCall
    /\ UNCHANGED <<trades, scores, tradeSeq, scoreSeq, locked, last>>

NextSold ==
    \/ call = NoCall /\ InsertBuy
    \/ call = NoCall /\ InsertSell
    \/ call = NoCall /\ DeleteTrade
    \/ call = NoCall /\ GarbageCollect
    \/ GetSoldQuantity
    \/ ReturnCall

SpecSold == Init /\ [][NextSold]_vars

\* The three forms filled in with any star level: each card has five star
\* buttons, and a card nobody touched has level 0.  The cards of a form are
\* all given the same level.
StarLevels == 0 .. 5

FormStars(labels) == {[a \in labels |-> level] : level \in StarLevels}

FormDaily ==
    \E selected_date \in 1 .. MaxDay, stars \in FormStars(DOMAIN ACTION_TYPES) :
        DailySubmit(selected_date, stars)

FormBuy ==
    \E stock_code \in StockCodes, buy_date \in BuyDates, buy_price \in BuyPrices,
       quantity \in BuyQuantities, stars \in FormStars(BuyLabels),
       configured \in BOOLEAN :
        BuySubmit(stock_code, buy_date, buy_price, quantity, ManualLabel,
                  None, configured, None, stars)

FormSell ==
    \E selected_trade \in get_active_trades(DB) :
        \E sell_quantity \in SellQuantityField(selected_trade), quote \in SellQuotes,
           stars \in FormStars(SellLabels) :
            SellSubmit(selected_trade, sell_quantity, quote.sell_date, quote.sell_price, stars)

NextForms ==
    \/ FormDaily
    \/ FormBuy
    \/ FormSell
    \/ GarbageCollect

SpecForms == Init /\ [][NextForms]_vars

\* The score table written by Database.add_score and delete_score, with the
\* date-range report read between the writes.  A score row is of either
\* kind and dated on one of the days.
ReportKinds == {"subjective", "objective"}
ReportCategories == {"profit-taken"}

InsertScore ==
    /\ call = NoCall
    /\ \E date \in 1 .. MaxDay, score_type \in ReportKinds, action_type \in ReportCategories :
        LET added == add_score(DB, [trade_id |-> NoneInt, date |-> date,
                                    action_type |-> action_type, score_type |-> score_type,
                                    score |-> ACTION_TYPES[action_type].max_score])
        IN /\ added.db.scoreSeq <= MaxScores
           /\ Commit(added.db)
           /\ Called("add_score", added.exc)
    /\ UNCHANGED call

GetScoresByDateRange ==
    /\ call = NoCall
    /\ \E start_date \in 1 .. MaxDay, end_date \in 1 .. MaxDay, score_type \in ReportKinds \cup {None} :
        call' = [fn |-> "get_scores_by_date_range", start_date |-> start_date,
                 end_date |-> end_date, score_type |-> score_type,
                 ret |-> get_scores_by_date_range(DB, start_date, end_date, score_type)]
    /\ Called("get_scores_by_date_range", "none")
    /\ UNCHANGED <<trades, scores, tradeSeq, scoreSeq, locked>>

NextReport ==
    \/ InsertScore
    \/ call = NoCall /\ DeleteScore
    \/ GetScoresByDateRange
    \/ ReturnCall

SpecReport == Init /\ [][NextReport]_vars

\* ------------------------------------------------------------- claims

BuyRows == {r \in trades : r.trade_type = "buy"}
SellRows == {r \in trades : r.trade_type = "sell"}
Sold(trade_group_id) == get_sold_quantity(DB, trade_group_id)

\* No row was ever deleted: every id AUTOINCREMENT gave is still in the table.
NothingDeleted == Cardinality(trades) = tradeSeq

\* The row the last insert made.
Newest(rows, seq) == CHOOSE r \in rows : r.id = seq

\* C1: with sells inserted and no row ever deleted, the quantities of the sell
\* rows of a lot sum to at most the quantity of the lot's buy row.
C1_SoldWithinBought ==
    NothingDeleted => \A b \in BuyRows : Sold(b.trade_group_id) <= b.quantity

\* C2: a sell whose quantity, added to what the lot has sold, exceeds the buy
\* row's quantity is refused, and a refused sell leaves every trade row and
\* every score row as it was.
C2_OversizedSellRefused ==
    [][last'.op \in {"add_trade", "sell_submit"} =>
        /\ (tradeSeq' # tradeSeq /\ Newest(trades', tradeSeq').trade_type = "sell") =>
              LET sell == Newest(trades', tradeSeq')
              IN \A b \in BuyRows :
                    b.trade_group_id = sell.trade_group_id =>
                        sell.quantity + Sold(sell.trade_group_id) <= b.quantity
        /\ last'.exc # "none" => trades' = trades /\ scores' = scores]_vars

\* C3: after a sell is inserted, the lot's buy row is closed exactly when the
\* sold quantity has reached the bought quantity, and while less is sold the
\* lot is open and among get_active_trades().
C3_StatusFollowsSold ==
    (/\ last.op \in {"add_trade", "sell_submit"}
     /\ last.exc = "none"
     /\ \E r \in SellRows : r.id = tradeSeq) =>
        LET sell == Newest(trades, tradeSeq)
        IN \A b \in BuyRows :
              b.trade_group_id = sell.trade_group_id =>
                /\ b.status = "closed" <=> Sold(b.trade_group_id) >= b.quantity
                /\ Sold(b.trade_group_id) < b.quantity => b \in get_active_trades(DB)

\* C4: a buy row that is closed is closed after every step, for as long as the
\* row exists.
C4_ClosedStaysClosed ==
    [][\A b \in BuyRows :
          b.status = "closed" =>
              \A r \in trades' : r.id = b.id => r.status = "closed"]_vars

\* C4, its case: a closed lot whose sell rows are gone (less is sold than was
\* bought), just after update_trade_status ran.
C4_Witness ==
    /\ last = [op |-> "update_trade_status", exc |-> "none"]
    /\ Cardinality(BuyRows) = 1
    /\ \E b \in BuyRows : b.status = "closed" /\ Sold(b.trade_group_id) < b.quantity

\* The ledger holds lot 1, bought at quantity 1000, and the sells of the given
\* quantities on it, inserted in this order, and nothing else.
LedgerIs(quantities) ==
    /\ tradeSeq = 1 + Len(quantities)
    /\ Cardinality(trades) = tradeSeq
    /\ \E b \in BuyRows : b.id = 1 /\ b.trade_group_id = 1 /\ b.quantity = 1000
    /\ \A i \in 1 .. Len(quantities) :
          \E r \in SellRows :
              r.id = 1 + i /\ r.trade_group_id = 1 /\ r.quantity = quantities[i]

\* C5: from an empty ledger, a buy of 1000 and a sell of 400 leave the lot open
\* with 400 sold; a further sell of 600 leaves it closed with 1000 sold; a
\* further sell of 1 is refused.
C5_EndToEnd ==
    /\ LedgerIs(<<400>>) =>
          /\ Sold(1) = 400
          /\ \A b \in BuyRows : b.status = "open"
    /\ LedgerIs(<<400, 600>>) =>
          /\ Sold(1) = 1000
          /\ \A b \in BuyRows : b.status = "closed"
    /\ ~LedgerIs(<<400, 600, 1>>)

\* C6: in every state, whatever was inserted and deleted, the sell rows of a
\* lot that has a buy row sum to at most that buy row's quantity.
C6_NeverOversold ==
    \A b \in BuyRows : Sold(b.trade_group_id) <= b.quantity

\* C7: a sell is inserted only for a lot that has an open buy row, and a sell
\* that is refused inserts and modifies nothing.
C7_SellNeedsOpenLot ==
    [][last'.op \in {"add_trade", "sell_submit"} =>
        /\ (tradeSeq' # tradeSeq /\ Newest(trades', tradeSeq').trade_type = "sell") =>
              LET sell == Newest(trades', tradeSeq')
              IN \E b \in get_active_trades(DB) :
                    b.trade_group_id = sell.trade_group_id
        /\ last'.exc # "none" => trades' = trades /\ scores' = scores]_vars

\* The subjective entries of a date, as (category, score) pairs.
SubjectiveOf(date) ==
    {<<r.action_type, r.score>> :
        r \in {x \in scores : x.date = date /\ x.score_type = "subjective"}}

\* C8: after a daily self-check is submitted, the subjective entries of its
\* date are exactly those of that submission, one for each category rated
\* above 0, whatever the date held before.
C8_ResubmitReplaces ==
    (last.op = "daily_submit" /\ TotalScore(call.stars) > 0) =>
        /\ SubjectiveOf(call.date) =
              {<<a, StarScore(a, call.stars[a])>> :
                  a \in {x \in DOMAIN ACTION_TYPES : call.stars[x] > 0}}
        /\ Cardinality({x \in scores : x.date = call.date /\ x.score_type = "subjective"})
              = Cardinality({x \in DOMAIN ACTION_TYPES : call.stars[x] > 0})

SellCalled == call.fn = "detect_sell_action_type"

\* C9: for positive prices the answer is profit-taken when the price rose by
\* more than 1%, loss-cut when it fell by more than 1%, and otherwise
\* profit-taken if the sell price is above the buy price and loss-cut if not.
C9_SellLabel ==
    (SellCalled /\ call.buy_price > 0 /\ call.sell_price > 0) =>
        LET rise == call.sell_price - call.buy_price
        IN /\ call.ret \in SellLabels
           /\ 100 * rise > call.buy_price => call.ret = "profit-taken"
           /\ 100 * rise < 0 - call.buy_price => call.ret = "loss-cut"
           /\ (100 * rise <= call.buy_price /\ 100 * rise >= 0 - call.buy_price) =>
                 call.ret = (IF call.sell_price > call.buy_price
                                THEN "profit-taken" ELSE "loss-cut")

\* C9, its case: a rise of exactly 1%, which the threshold leaves to the
\* comparison of the two prices.
C9_Witness ==
    /\ SellCalled
    /\ call.buy_price = 100
    /\ call.sell_price = 101
    /\ call.ret = "profit-taken"

\* C10 as it was claimed: a price that is not positive ends the call in the
\* error InvalidInput.
C10_InvalidInputRaised ==
    (SellCalled /\ (call.buy_price <= 0 \/ call.sell_price <= 0)) =>
        call.exc = "InvalidInput"

\* C10, amended: a price that is not positive makes the call return None; it
\* raises nothing and returns no label.
C10_NonPositiveGivesNone ==
    (SellCalled /\ (call.buy_price <= 0 \/ call.sell_price <= 0)) =>
        call.exc = "none" /\ call.ret = None

\* C10, its case: a sell price of 0 against a positive buy price.
C10_Witness ==
    /\ SellCalled
    /\ call.buy_price > 0
    /\ call.sell_price = 0
    /\ call.ret = None

ScoreCalled == call.fn = "calculate_objective_score"

\* C11 as it was claimed: a buy price that is not positive ends the call in
\* the error InvalidInput, for every category and sell price.
C11_InvalidInputRaised ==
    (ScoreCalled /\ call.buy_price <= 0) => call.exc = "InvalidInput"

\* C11, amended: a buy price that is not positive makes the call return the
\* score 0, for every category and sell price; it raises nothing.
C11_NonPositiveBuyScoresZero ==
    (ScoreCalled /\ call.buy_price <= 0) => call.exc = "none" /\ call.ret = 0

\* C11, its case: loss-cut, which scores above 0 at every pair of positive
\* prices, called with a negative buy price.
C11_Witness ==
    /\ ScoreCalled
    /\ call.action_type = "loss-cut"
    /\ call.buy_price < 0
    /\ call.ret = 0

\* C12: for a positive buy price and any sell price the score is an integer
\* from 0 to the category's maximum, and 0 for a category that is none of
\* the four.
C12_ScoreWithinCategoryMaximum ==
    (ScoreCalled /\ call.buy_price > 0) =>
        IF call.action_type \in DOMAIN ACTION_TYPES
            THEN call.ret \in 0 .. ACTION_TYPES[call.action_type].max_score
            ELSE call.ret = 0

\* C12, its case: a sell price that is not positive, scored at the maximum.
C12_Witness ==
    /\ ScoreCalled
    /\ call.action_type = "loss-cut"
    /\ call.buy_price > 0
    /\ call.sell_price <= 0
    /\ call.ret = 20

\* The score the piecewise rule gives when the rate of return is computed
\* exactly: full marks from `full` percent, the whole part of
\* max_score * rate / full from 0 up to it, 0 below 0.
ExactRising(max_score, full, buy_price, sell_price) ==
    IF 100 * (sell_price - buy_price) >= full * buy_price THEN max_score
    ELSE IF sell_price >= buy_price
        THEN (max_score * 100 * (sell_price - buy_price)) \div (full * buy_price)
    ELSE 0

\* The same for loss-cut: full marks from 0 percent up and from -5 percent
\* down, the whole part of max_score * (1 + rate / 5) in between.
ExactLossCut(max_score, buy_price, sell_price) ==
    IF sell_price >= buy_price THEN max_score
    ELSE IF 100 * (sell_price - buy_price) <= (0 - 5) * buy_price THEN max_score
    ELSE (max_score * (5 * buy_price + 100 * (sell_price - buy_price))) \div (5 * buy_price)

\* C13: for profit-taken and a positive buy price the score is 30 from a
\* rate of 5 percent, the whole part of 30 * rate / 5 from 0 to 5 percent
\* and 0 below 0, the rate computed exactly.
C13_ProfitTakenScore ==
    (ScoreCalled /\ call.action_type = "profit-taken" /\ call.buy_price > 0) =>
        call.ret = ExactRising(30, 5, call.buy_price, call.sell_price)

\* C14: for loss-cut and a positive buy price the score is 20 from a rate
\* of 0 percent up and from -5 percent down, and the whole part of
\* 20 * (1 + rate / 5) in between.
C14_LossCutScore ==
    (ScoreCalled /\ call.action_type = "loss-cut" /\ call.buy_price > 0) =>
        call.ret = ExactLossCut(20, call.buy_price, call.sell_price)

\* C15: for a positive buy price dipped-then-bought scores 30 from 10
\* percent and the whole part of 30 * rate / 10 below it, rallied-then-bought
\* 20 from 8 percent and the whole part of 20 * rate / 8 below it, both 0 for
\* a negative rate.
C15_BuyCategoryScores ==
    (ScoreCalled /\ call.buy_price > 0) =>
        /\ call.action_type = "dipped-then-bought" =>
              call.ret = ExactRising(30, 10, call.buy_price, call.sell_price)
        /\ call.action_type = "rallied-then-bought" =>
              call.ret = ExactRising(20, 8, call.buy_price, call.sell_price)

BuyCalled == call.fn = "detect_buy_action_type"

\* The call reached the provider and the provider answered with rows.
BuyAnswered ==
    /\ BuyCalled
    /\ call.tushare_client.configured
    /\ call.buy_date # NoneInt
    /\ call.tushare_client.reply.kind = "data"

\* The observations dated after the buy date, and of them those with fewer
\* than days_to_check observations before them.
AfterBuy == {r \in call.tushare_client.reply.rows : r.trade_date > call.buy_date}
Considered ==
    {r \in AfterBuy :
        Cardinality({x \in AfterBuy : x.trade_date < r.trade_date}) < call.days_to_check}
LastConsidered == CHOOSE r \in Considered : \A x \in Considered : x.trade_date <= r.trade_date

\* The float of every price of the runs, in hundredths.
FloatOf == [p \in 0 .. MaxPrice |-> Price(p)]

RECURSIVE FloatSum(_)
FloatSum(closes) ==
    IF closes = <<>> THEN FZero
    ELSE FAdd(FloatSum(SubSeq(closes, 1, Len(closes) - 1)), FloatOf[closes[Len(closes)]])

\* The label claimed for the considered observations; tie is the label for
\* a mean equal to the buy price.  The products and the mean are the float
\* values, the closes added in the order of their dates.
ClaimedBuyLabel(tie) ==
    LET buy == FloatOf[call.buy_price]
        last_close == FloatOf[LastConsidered.close]
        inOrder == SortByTradeDate(Considered)
        closes == [i \in 1 .. Len(inOrder) |-> inOrder[i].close]
        mean == FDiv(FloatSum(closes), FInt(Len(closes)))
    IN IF Considered = {} THEN None
       ELSE IF FCmp(last_close, FMul(buy, FloatOf[101])) > 0 THEN "rallied-then-bought"
       ELSE IF FCmp(last_close, FMul(buy, FloatOf[99])) < 0 THEN "dipped-then-bought"
       ELSE IF FCmp(mean, buy) > 0 THEN "rallied-then-bought"
       ELSE IF FCmp(mean, buy) < 0 THEN "dipped-then-bought"
       ELSE tie

\* C16 as it was claimed: the label comes from the first days_to_check
\* observations after the buy date: rallied-then-bought for a last close
\* above buy price * 1.01, dipped-then-bought for one below buy price * 0.99,
\* otherwise rallied-then-bought for a mean at or above the buy price and
\* dipped-then-bought for a mean below it; None without such an observation.
C16_BuyLabel ==
    BuyAnswered => (call.exc = "none" /\ call.ret = ClaimedBuyLabel("rallied-then-bought"))

\* C16, amended: as claimed, but inside the band the label is
\* rallied-then-bought only for a mean above the buy price; a mean equal to
\* the buy price gives dipped-then-bought.
C16_BuyLabelStrictMean ==
    BuyAnswered => (call.exc = "none" /\ call.ret = ClaimedBuyLabel("dipped-then-bought"))

\* C16, its case: more observations after the buy date than are looked at,
\* the last considered close inside the band, the one after it far above.
C16_Witness ==
    /\ BuyAnswered
    /\ Cardinality(AfterBuy) > call.days_to_check
    /\ Cardinality(Considered) = call.days_to_check
    /\ LastConsidered.close = 101
    /\ \E r \in AfterBuy \ Considered : r.close = 98
    /\ call.ret = "rallied-then-bought"

\* C17: a call of detect_buy_action_type ends without an exception and
\* leaves the trades and the scores as they were; it returns None when the
\* provider is not configured, raises or returns nothing or no rows, and
\* when the buy date cannot be parsed.
C17_NoErrorNoEffect ==
    [][(call.fn = "none" /\ BuyCalled') =>
            /\ call'.exc = "none"
            /\ trades' = trades /\ scores' = scores
            /\ tradeSeq' = tradeSeq /\ scoreSeq' = scoreSeq
            /\ (\/ ~call'.tushare_client.configured
                \/ call'.buy_date = NoneInt
                \/ call'.tushare_client.reply.kind \in {"raises", "none"}
                \/ call'.tushare_client.reply.rows = {}) => call'.ret = None]_vars

\* C17, its case: a configured provider and a buy date that does not parse.
C17_Witness ==
    /\ BuyCalled
    /\ call.tushare_client.configured
    /\ call.buy_date = NoneInt
    /\ call.ret = None
    /\ call.exc = "none"

\* C18 as it was claimed: a buy submission that passes the form's checks
\* (code, price > 0, quantity > 0, a label picked by hand) while no label is
\* detected stores a new buy row with the label picked by hand, whether the
\* provider is configured or not.
C18_ManualFallback ==
    [][(/\ last'.op = "buy_submit"
        /\ last'.exc # "st.error"
        /\ <<trades, scores, tradeSeq, scoreSeq, locked, last>>' #
                <<trades, scores, tradeSeq, scoreSeq, locked, last>>) =>
            /\ tradeSeq' = tradeSeq + 1
            /\ \E r \in trades' \ trades :
                /\ r.id = tradeSeq'
                /\ r.trade_type = "buy"
                /\ r.action_type = ManualLabel]_vars

\* C19 as it was claimed: every buy row's lot id (trade_group_id) is the
\* row's own id.
C19_LotIdIsRowId == \A r \in BuyRows : r.trade_group_id = r.id

\* C19, amended: every buy row has a lot id of at least 1 that no other buy
\* row has.
C19_LotIdsDistinct ==
    \A r \in BuyRows :
        /\ r.trade_group_id >= 1
        /\ \A x \in BuyRows : x.trade_group_id = r.trade_group_id => x = r

\* C19, its case: a second buy stored after a sell, its lot id no longer
\* its row id.
C19_Witness ==
    /\ Cardinality(BuyRows) = 2
    /\ SellRows # {}
    /\ \E r \in BuyRows : r.trade_group_id # r.id

SoldCalled == call.fn = "get_sold_quantity"

\* The sell rows of a lot, and their quantities counted: each quantity that
\* occurs, times the number of rows that have it.
SellRowsOf(trade_group_id) ==
    {r \in trades : r.trade_type = "sell" /\ r.trade_group_id = trade_group_id}

RECURSIVE CountedQuantity(_, _)
CountedQuantity(quantities, rows) ==
    IF quantities = {} THEN 0
    ELSE LET q == CHOOSE x \in quantities : TRUE
         IN q * Cardinality({r \in rows : r.quantity = q})
                + CountedQuantity(quantities \ {q}, rows)

\* C21: get_sold_quantity(lot) returns the sum of the quantities of the sell
\* rows of that lot, 0 when it has none, whatever buy rows and rows of other
\* lots there are, and the call changes no row.
C21_SoldQuantityIsSellSum ==
    [][(call.fn = "none" /\ SoldCalled') =>
            /\ call'.ret = CountedQuantity({r.quantity : r \in SellRowsOf(call'.trade_group_id)},
                                           SellRowsOf(call'.trade_group_id))
            /\ (SellRowsOf(call'.trade_group_id) = {} => call'.ret = 0)
            /\ last'.exc = "none"
            /\ trades' = trades /\ scores' = scores
            /\ tradeSeq' = tradeSeq /\ scoreSeq' = scoreSeq /\ locked' = locked]_vars

\* C21, its case: the lot asked for has its buy row and one sell row, and
\* another lot has a sell row too.
C21_Witness ==
    /\ SoldCalled
    /\ \E b \in BuyRows : b.trade_group_id = call.trade_group_id
    /\ Cardinality(SellRowsOf(call.trade_group_id)) = 1
    /\ \E r \in SellRows : r.trade_group_id # call.trade_group_id
    /\ call.ret \in SellQuantities

RECURSIVE SumScore(_)
SumScore(rows) ==
    IF rows = {} THEN 0
    ELSE LET r == CHOOSE x \in rows : TRUE
         IN r.score + SumScore(rows \ {r})

\* C22: every score row the daily, buy and sell forms leave in the store has
\* one of the four categories and a score from 0 to that category's maximum
\* (30, 30, 20, 20), and the rows one daily check-in stores add up to at most
\* 100.
C22_ScoresWithinCategoryMaximum ==
    [][/\ \A r \in scores' :
            /\ r.action_type \in DOMAIN ACTION_TYPES
            /\ r.score >= 0
            /\ r.score <= ACTION_TYPES[r.action_type].max_score
       /\ last'.op = "daily_submit" =>
            /\ SumScore(scores' \ scores) <= 100
            /\ \A r \in scores' \ scores : r.score_type = "subjective"]_vars

\* C22, its case: a daily check-in with five stars on every card, stored as
\* four rows that add up to 100.
C22_Witness ==
    /\ last = [op |-> "daily_submit", exc |-> "none"]
    /\ \A a \in DOMAIN ACTION_TYPES : call.stars[a] = 5
    /\ Cardinality(scores) = 4
    /\ SumScore(scores) = 100
    /\ \E r \in scores : r.score = 30

\* The rows of trades' that are not in trades under any id, and the step
\* that stored a buy row.
TradeIds == {r.id : r \in trades}
LotIds == {r.trade_group_id : r \in trades} \ {NoneInt}

\* The buy row stored by the step carries a lot id one above every lot id
\* there was (1 when there was none), that no row had, and is open.
FreshLot(r) ==
    /\ r.status = "open"
    /\ r.trade_group_id >= 1
    /\ \A g \in LotIds : g < r.trade_group_id
    /\ r.trade_group_id = 1 \/ (r.trade_group_id - 1) \in LotIds
    /\ \A x \in trades : x.trade_group_id # r.trade_group_id

\* C23 as it was claimed: add_trade given a buy record returns the lot id,
\* one above the largest lot id of the rows there were (1 without any); the
\* row it stored carries that lot id and is open, and no row that was there
\* carries it.
C23_InsertBuyReturnsLotId ==
    [][\A r \in trades' :
            (r.id \notin TradeIds /\ r.trade_type = "buy" /\ last'.op = "add_trade") =>
                /\ FreshLot(r)
                /\ last'.ret = r.trade_group_id]_vars

\* C23, amended: add_trade given a buy record returns the id of the row it
\* stored (the buy form files its score rows under it); the row carries a
\* lot id one above the largest there was, is open, and no row that was
\* there carries that lot id.
C23_InsertBuyReturnsRowId ==
    [][\A r \in trades' :
            (r.id \notin TradeIds /\ r.trade_type = "buy") =>
                /\ FreshLot(r)
                /\ r.id = tradeSeq'
                /\ last'.exc = "none"
                /\ last'.op = "add_trade" => last'.ret = r.id
                /\ last'.op = "buy_submit" =>
                        \A x \in scores' \ scores : x.trade_id = r.id]_vars

\* C23, its case: a buy stored third, after a sell, in lot 2.
C23_Witness ==
    /\ last.op = "add_trade"
    /\ last.exc = "none"
    /\ \E r \in BuyRows :
        /\ r.id = tradeSeq
        /\ last.ret = r.id
        /\ r.trade_group_id < r.id
        /\ r.status = "open"
    /\ SellRows # {}

\* C24: a sell stored in a lot leaves on the lot's buy row the sell date and
\* sell price of that sell, and changes nothing else but the buy row's
\* status: the buy row's id, lot id, stock, category, buy date, buy price and
\* quantity, the lot's earlier sell rows and every row of every other lot
\* stay as they were, and no row goes.
C24_SellMirroredOnBuyRow ==
    [][\A sell \in trades' :
            (sell.id \notin TradeIds /\ sell.trade_type = "sell") =>
                /\ {r.id : r \in trades'} = TradeIds \cup {sell.id}
                /\ \A old \in trades :
                    IF old.trade_type = "buy" /\ old.trade_group_id = sell.trade_group_id
                    THEN \E status \in {"open", "closed"} :
                            [old EXCEPT !.status = status,
                                        !.sell_date = sell.sell_date,
                                        !.sell_price = sell.sell_price] \in trades'
                    ELSE old \in trades']_vars

\* C24, its case: the second sell of a lot, at another date and price than
\* the first, mirrored on the lot's buy row.
C24_Witness ==
    /\ last.op = "add_trade"
    /\ last.exc = "none"
    /\ \E sell \in SellRows, earlier \in SellRows, b \in BuyRows :
        /\ sell.id = tradeSeq
        /\ earlier.id < sell.id
        /\ earlier.trade_group_id = sell.trade_group_id
        /\ earlier.sell_date # sell.sell_date
        /\ b.trade_group_id = sell.trade_group_id
        /\ b.sell_date = sell.sell_date
        /\ b.sell_price = sell.sell_price

\* C25 as it was claimed: a sell form that passes the handler's checks
\* (price > 0, quantity > 0 and within what is left of the lot) is stored as
\* a sell row without a category (action_type NULL), which the store
\* accepts.
C25_SellStoredWithoutCategory ==
    [][(/\ last'.op = "sell_submit"
        /\ last'.exc # "st.error"
        /\ <<trades, scores, tradeSeq, scoreSeq, locked, last>>' #
                <<trades, scores, tradeSeq, scoreSeq, locked, last>>) =>
            \E r \in trades' :
                /\ r.id \notin TradeIds
                /\ r.trade_type = "sell"
                /\ r.action_type = None]_vars

ReportCalled == call.fn = "get_scores_by_date_range"

\* The score rows a report asks for, and a row as the report shows it.
Reported ==
    {r \in scores :
        /\ call.start_date <= r.date
        /\ r.date <= call.end_date
        /\ (call.score_type # None => r.score_type = call.score_type)}

Shown(r) ==
    [date |-> r.date, action_type |-> r.action_type,
     score_type |-> r.score_type, score |-> r.score]

\* C26 (the answer): the report has one line for each score row dated from
\* start to end, both included, and of the kind asked for when one is asked
\* for, no other line, and its lines are in the order of their dates.
ReportIsExact ==
    /\ Len(call.ret) = Cardinality(Reported)
    /\ \A r \in Reported :
        Cardinality({i \in 1 .. Len(call.ret) : call.ret[i] = Shown(r)})
            = Cardinality({x \in Reported : Shown(x) = Shown(r)})
    /\ \A i \in 1 .. Len(call.ret) : \A j \in i .. Len(call.ret) :
        call.ret[i].date <= call.ret[j].date

\* C26: get_scores_by_date_range answers with exactly the rows in the range
\* and of the kind, each once, by ascending date, and changes neither trade
\* rows nor score rows.
C26_DateRangeReport ==
    [][(call.fn = "none" /\ ReportCalled') =>
            /\ ReportIsExact'
            /\ last'.exc = "none"
            /\ trades' = trades /\ scores' = scores
            /\ tradeSeq' = tradeSeq /\ scoreSeq' = scoreSeq]_vars

\* C26, its case: a report of one kind over both days, with a row of the
\* other kind and two rows alike among the rows of the table.
C26_Witness ==
    /\ ReportCalled
    /\ call.start_date < call.end_date
    /\ call.score_type = "objective"
    /\ Len(call.ret) = 3
    /\ call.ret[1].date < call.ret[3].date
    /\ \E r \in scores : r.score_type = "subjective"
    /\ \E r \in Reported, x \in Reported : r # x /\ Shown(r) = Shown(x)

\* The sells counted for a lot among the rows a step leaves.
SoldAfter(trade_group_id) == get_sold_quantity([DB EXCEPT !.trades = trades'], trade_group_id)

\* C27: right after a buy row is stored, by add_trade or by the buy form,
\* get_sold_quantity of the row's lot id is 0, whatever sell rows of lots
\* whose buy row was deleted are still there.
C27_NewLotHasNothingSold ==
    [][\A r \in trades' :
            (r.id \notin TradeIds /\ r.trade_type = "buy") =>
                SoldAfter(r.trade_group_id) = 0]_vars

\* C27, its case: a buy stored after delete_trade removed the only buy row
\* there was and left the sell row of its lot.
C27_Witness ==
    /\ last.op = "add_trade"
    /\ last.exc = "none"
    /\ \E r \in BuyRows, sell \in SellRows :
        /\ BuyRows = {r}
        /\ r.id = tradeSeq
        /\ sell.id < r.id
        /\ sell.trade_group_id < r.trade_group_id
        /\ \A x \in trades : x.id # sell.trade_group_id
        /\ get_sold_quantity(DB, sell.trade_group_id) > 0
        /\ get_sold_quantity(DB, r.trade_group_id) = 0

\* The buy rows of a lot among the rows a step leaves, and the buy rows the
\* step changed (same id, another content).
BuyRowsAfter(trade_group_id) ==
    {r \in trades' : r.trade_type = "buy" /\ r.trade_group_id = trade_group_id}
BuyRowsChanged == {r \in BuyRows : r \notin trades' /\ \E x \in trades' : x.id = r.id}

\* C28: whatever add_trade, the forms, update_trade_status and delete_trade
\* did so far, no lot id is carried by two buy rows, and a step that closes
\* a lot or mirrors a sell changes one buy row at most.
C28_OneBuyRowPerLot ==
    [][/\ \A g \in 0 .. MaxTrades + 1 : Cardinality(BuyRowsAfter(g)) <= 1
       /\ Cardinality(BuyRowsChanged) <= 1]_vars

\* C28, its case: two lots, one closed by a sell that was mirrored on its
\* buy row, the buy row of the other as it was stored.
C28_Witness ==
    /\ last.op = "add_trade"
    /\ last.exc = "none"
    /\ \E b \in BuyRows, other \in BuyRows, sell \in SellRows :
        /\ BuyRows = {b, other}
        /\ b.trade_group_id # other.trade_group_id
        /\ sell.id = tradeSeq
        /\ sell.trade_group_id = b.trade_group_id
        /\ b.status = "closed"
        /\ b.sell_date = sell.sell_date
        /\ other.status = "open"
        /\ other.sell_date = NoneInt

\* C29: for positive prices detect_sell_action_type answers as the plain
\* comparison of the two prices does: profit-taken exactly when the sell
\* price is above the buy price, loss-cut exactly when it is not; the 1%
\* thresholds decide nothing.
C29_PlainComparison ==
    (SellCalled /\ call.buy_price > 0 /\ call.sell_price > 0) =>
        /\ call.ret = "profit-taken" <=> call.sell_price > call.buy_price
        /\ call.ret = "loss-cut" <=> call.sell_price <= call.buy_price

\* C29, its case: a rise of less than 1%, inside the band, answered as a
\* gain.
C29_Witness ==
    /\ SellCalled
    /\ call.buy_price = 102
    /\ call.sell_price = 103
    /\ 100 * (call.sell_price - call.buy_price) < call.buy_price
    /\ call.ret = "profit-taken"

\* The categories that score a gain, and the sell prices drawn for the buy
\* price of the call that are above its sell price.
GainCategories == {"profit-taken", "dipped-then-bought", "rallied-then-bought"}
HigherSellPrices == {p \in ScoreSellPrices(call.buy_price) : p > call.sell_price}

\* C30: for profit-taken, dipped-then-bought and rallied-then-bought and a
\* positive buy price, calculate_objective_score never falls when the sell
\* price rises: the score at a sell price is at most the score at the next
\* higher sell price drawn, hence at most the score at every higher one.
C30_ScoreMonotoneInSellPrice ==
    (/\ ScoreCalled
     /\ call.action_type \in GainCategories
     /\ call.buy_price > 0
     /\ HigherSellPrices # {}) =>
        call.ret <= calculate_objective_score(call.action_type, call.buy_price,
                                              Min(HigherSellPrices))

\* C30, its case: a gain of 2%, scored between nothing and full marks, with
\* higher sell prices to compare with.
C30_Witness ==
    /\ ScoreCalled
    /\ call.action_type = "profit-taken"
    /\ call.buy_price = 10000
    /\ call.sell_price = 10200
    /\ call.ret > 0
    /\ call.ret < ACTION_TYPES["profit-taken"].max_score
    /\ HigherSellPrices # {}

====
